---------------------------- MODULE Spec2Model ----------------------------
(***************************************************************************)
(* create_new_member_ext.py: from a FirstLogic format file, generate the   *)
(* DDL of an external table based on COPE.NEW_MEMBER and either print it   *)
(* or hand it to code.ddl_utilities.create_or_replace_external_table.      *)
(*                                                                         *)
(* Text is modelled as a sequence of one-character strings, so that        *)
(* str.split, str.upper, str.lower and int() are computed character by     *)
(* character.  The DDL text is kept as the record of the values that are   *)
(* substituted into _TEMPLATE, and each joined fragment as the sequence    *)
(* of its entries.                                                         *)
(***************************************************************************)
EXTENDS Integers, Sequences, FiniteSets, TLC

(***************************************************************************)
(* Bounds of the model.                                                    *)
(***************************************************************************)
\* the longest format file that is read, in lines
MaxLines == 3

(***************************************************************************)
(* Text helpers: str.upper, str.lower, str.split, str.strip, int().        *)
(***************************************************************************)
LowerCase == <<"a","b","c","d","e","f","g","h","i","j","k","l","m",
               "n","o","p","q","r","s","t","u","v","w","x","y","z">>
UpperCase == <<"A","B","C","D","E","F","G","H","I","J","K","L","M",
               "N","O","P","Q","R","S","T","U","V","W","X","Y","Z">>

upper_char(c) ==
    IF \E i \in 1..Len(LowerCase) : LowerCase[i] = c
    THEN UpperCase[CHOOSE i \in 1..Len(LowerCase) : LowerCase[i] = c]
    ELSE c

lower_char(c) ==
    IF \E i \in 1..Len(UpperCase) : UpperCase[i] = c
    THEN LowerCase[CHOOSE i \in 1..Len(UpperCase) : UpperCase[i] = c]
    ELSE c

\* str.upper()
upper(s) == [i \in 1..Len(s) |-> upper_char(s[i])]

\* str.lower()
lower(s) == [i \in 1..Len(s) |-> lower_char(s[i])]

\* str.split(sep) for a one-character separator: the texts between the
\* separators, of which the k-th is at cut(k); cut(0) and cut(n + 1) are
\* the two ends
split(s, sep) ==
    LET at == {i \in 1..Len(s) : s[i] = sep}
        n == Cardinality(at)
        cut(k) == IF k = 0 THEN 0
                  ELSE IF k = n + 1 THEN Len(s) + 1
                  ELSE CHOOSE i \in at : Cardinality({j \in at : j < i}) = k - 1
    IN  [k \in 1..(n + 1) |-> SubSeq(s, cut(k - 1) + 1, cut(k) - 1)]

Whitespace == {" ", "\t", "\n", "\r"}

\* str.strip(): from the first to the last character that is no whitespace
strip(s) ==
    LET solid == {i \in 1..Len(s) : s[i] \notin Whitespace}
    IN  IF solid = {} THEN <<>>
        ELSE SubSeq(s, CHOOSE i \in solid : \A j \in solid : i <= j,
                       CHOOSE i \in solid : \A j \in solid : j <= i)

Digits == <<"0","1","2","3","4","5","6","7","8","9">>

IsDigit(c) == \E d \in 1..Len(Digits) : Digits[d] = c

DigitValue(c) == (CHOOSE d \in 1..Len(Digits) : Digits[d] = c) - 1

\* the digits of an int() literal after its sign
int_digits(s) ==
    LET t == strip(s)
    IN  IF t # <<>> /\ t[1] \in {"+", "-"} THEN Tail(t) ELSE t

\* int(s) returns a value (it raises ValueError otherwise)
int_ok(s) ==
    /\ int_digits(s) # <<>>
    /\ \A i \in 1..Len(int_digits(s)) : IsDigit(int_digits(s)[i])

\* the number a text of decimal digits denotes
digits_value(ds) ==
    LET value[n \in 0..Len(ds)] ==
            IF n = 0 THEN 0 ELSE 10 * value[n - 1] + DigitValue(ds[n])
    IN  value[Len(ds)]

\* int(s), where int_ok(s)
int(s) ==
    IF strip(s)[1] = "-" THEN 0 - digits_value(int_digits(s))
    ELSE digits_value(int_digits(s))

(***************************************************************************)
(* Literals of the program.                                                *)
(***************************************************************************)
\* 'NEW_MEMBER_' and '_EXT' of the table name's f-string
TableNamePrefix == <<"N","E","W","_","M","E","M","B","E","R","_">>
TableNameSuffix == <<"_","E","X","T">>
\* '_good.txt' of the file name's f-string
FileNameSuffix == <<"_","g","o","o","d",".","t","x","t">>
\* '.bad' and '.log' of _TEMPLATE
BadSuffix == <<".","b","a","d">>
LogSuffix == <<".","l","o","g">>
\* the sentinel name 'EOR'
EOR == <<"E","O","R">>
\* the options expand_args reads from section 'database'
ConfigItems == <<"username", "password", "dbname", "directory_name">>

(***************************************************************************)
(* The inputs of a run: the command line, the configuration file, the     *)
(* rows the two queries return and the content of the format file.         *)
(***************************************************************************)
Acronyms == { <<"A","B">>, <<"A","b">> }

ConfigFiles ==
    { [isfile |-> FALSE, has_section |-> FALSE, options |-> {}],
      [isfile |-> TRUE, has_section |-> FALSE, options |-> {}] }
    \cup { [isfile |-> TRUE, has_section |-> TRUE, options |-> o] :
              o \in SUBSET {ConfigItems[i] : i \in 1..Len(ConfigItems)} }

\* cfg.get('database', item)
ConfigValue(item) ==
    CASE item = "username" -> <<"u">>
      [] item = "password" -> <<"p">>
      [] item = "dbname" -> <<"d","b">>
      [] item = "directory_name" -> <<"D","I","R">>

\* column names of COPE.NEW_MEMBER, as all_tab_columns stores them
TableColumns == { <<"A">>, <<"B">> }
\* what the query for the CHAR-semantics columns can return
CharColumnSets == { {<<"A">>} }

\* a line NAME,LENGTH and a line that holds a name alone
Line(name, length) == name \o <<",">> \o length \o <<"\n">>
Bare(name) == name \o <<"\n">>

\* the lines a format file is made of: columns in either letter case, a
\* negative length, a missing length, and sentinels in either letter case
\* and with a length that is no integer
FormatLines ==
    { Line(<<"a">>, <<"2">>), Line(<<"A">>, <<"3">>), Line(<<"B">>, <<"2">>),
      Line(<<"B">>, <<"-","1">>), Bare(<<"B">>),
      Line(<<"E","O","R">>, <<"0">>), Line(<<"e","o","r">>, <<"2">>),
      Line(<<"E","O","R">>, <<"x">>) }

FormatFiles == UNION { [1..n -> FormatLines] : n \in 0..MaxLines }

(***************************************************************************)
(* State.                                                                  *)
(***************************************************************************)
VARIABLES
    pc,            \* the statement the run is at
    args,          \* the dictionary parse_args returns and expand_args fills
    cfg,           \* the file at dbconfig_path
    fmt_exists,    \* whether open(fmt_path) succeeds
    connected,     \* a cx_Oracle connection was opened
    queries,       \* the queries executed on the cursor
    char_columns,  \* gen_ddl's char_columns
    db_columns,    \* gen_ddl's db_columns
    file,          \* the lines of the opened format file
    pos,           \* the line the for loop reads next
    all_columns,   \* collect_columns' locals
    offset,
    with_lengths,
    with_offsets,
    ddl,           \* the text gen_ddl returned: <<>> or <<text>>
    stdout,        \* what print wrote
    stderr,        \* what logging.error and the interpreter wrote
    callproc,      \* the calls of create_or_replace_external_table
    exit_status    \* <<>> while the process runs, then <<its exit status>>

vars == <<pc, args, cfg, fmt_exists, connected, queries, char_columns,
          db_columns, file, pos, all_columns, offset, with_lengths,
          with_offsets, ddl, stdout, stderr, callproc, exit_status>>

Init ==
    /\ pc = "expand_args"
    /\ \E a \in Acronyms, s \in BOOLEAN :
          args = [affiliate_acronym |-> a, show_only |-> s,
                  table_name |-> <<>>, username |-> <<>>, password |-> <<>>,
                  dbname |-> <<>>, directory_name |-> <<>>]
    /\ cfg \in ConfigFiles
    /\ fmt_exists \in BOOLEAN
    /\ connected = FALSE
    /\ queries = {}
    /\ char_columns = {}
    /\ db_columns = {}
    /\ file = <<>>
    /\ pos = 1
    /\ all_columns = {}
    /\ offset = 0
    /\ with_lengths = <<>>
    /\ with_offsets = <<>>
    /\ ddl = <<>>
    /\ stdout = <<>>
    /\ stderr = <<>>
    /\ callproc = <<>>
    /\ exit_status = <<>>

(***************************************************************************)
(* The ways a run ends.                                                    *)
(***************************************************************************)
\* log_and_quit(message): logging.error(message); sys.exit()
log_and_quit(message) ==
    /\ stderr' = Append(stderr, [kind |-> "error", text |-> message])
    /\ pc' = "exited"
    /\ exit_status' = <<0>>

\* an exception nothing catches: the interpreter prints the traceback
uncaught(exception) ==
    /\ stderr' = Append(stderr, [kind |-> "traceback", text |-> exception])
    /\ pc' = "exited"
    /\ exit_status' = <<1>>

\* sys.exit() and the builtin exit(), called with no argument
exit_none ==
    /\ pc' = "exited"
    /\ exit_status' = <<0>>

(***************************************************************************)
(* expand_args and get_cursor.                                             *)
(***************************************************************************)
\* the dictionary once the first n items of the for loop are copied
RECURSIVE with_items(_, _)
with_items(args_dict, n) ==
    IF n = 0 THEN args_dict
    ELSE [with_items(args_dict, n - 1) EXCEPT
             ![ConfigItems[n]] = ConfigValue(ConfigItems[n])]

\* f'NEW_MEMBER_{affiliate_acronym}_EXT'
table_name_of(affiliate_acronym) ==
    TableNamePrefix \o affiliate_acronym \o TableNameSuffix

expand_args ==
    /\ pc = "expand_args"
    /\ LET named == [args EXCEPT
                        !.table_name = table_name_of(args.affiliate_acronym)]
           missing == {i \in 1..Len(ConfigItems) :
                          ConfigItems[i] \notin cfg.options}
       IN  IF ~cfg.isfile
           THEN /\ args' = named
                /\ log_and_quit(<<"No such file", "dbconfig_path">>)
           ELSE IF ~cfg.has_section
           THEN /\ args' = named
                /\ log_and_quit(<<"No database found", "">>)
           ELSE IF missing # {}
           THEN LET k == CHOOSE i \in missing : \A j \in missing : i <= j
                IN  /\ args' = with_items(named, k - 1)
                    /\ log_and_quit(<<"Missing parameter", ConfigItems[k]>>)
           ELSE /\ args' = with_items(named, Len(ConfigItems))
                /\ pc' = "get_cursor"
                /\ UNCHANGED <<stderr, exit_status>>
    /\ UNCHANGED <<cfg, fmt_exists, connected, queries, char_columns,
                   db_columns, file, pos, all_columns, offset, with_lengths,
                   with_offsets, ddl, stdout, callproc>>

get_cursor ==
    /\ pc = "get_cursor"
    /\ \E ok \in BOOLEAN :
          IF ok
          THEN /\ connected' = TRUE
               /\ pc' = "get_char_semantics_columns"
               /\ UNCHANGED <<stderr, exit_status>>
          ELSE /\ uncaught(<<"DatabaseError", "Connection">>)
               /\ UNCHANGED connected
    /\ UNCHANGED <<args, cfg, fmt_exists, queries, char_columns, db_columns,
                   file, pos, all_columns, offset, with_lengths,
                   with_offsets, ddl, stdout, callproc>>

(***************************************************************************)
(* gen_ddl: the two queries.                                               *)
(***************************************************************************)
get_char_semantics_columns ==
    /\ pc = "get_char_semantics_columns"
    /\ queries' = queries \cup {"char_semantics_columns"}
    /\ \E ok \in BOOLEAN :
          IF ok
          THEN /\ \E rows \in CharColumnSets : char_columns' = rows
               /\ pc' = "get_all_columns"
               /\ UNCHANGED <<stderr, exit_status>>
          ELSE /\ uncaught(<<"DatabaseError", "execute">>)
               /\ UNCHANGED char_columns
    /\ UNCHANGED <<args, cfg, fmt_exists, connected, db_columns, file, pos,
                   all_columns, offset, with_lengths, with_offsets, ddl,
                   stdout, callproc>>

get_all_columns ==
    /\ pc = "get_all_columns"
    /\ queries' = queries \cup {"all_columns"}
    /\ \E ok \in BOOLEAN :
          IF ok
          THEN /\ \E rows \in SUBSET TableColumns : db_columns' = rows
               /\ pc' = "collect_columns"
               /\ UNCHANGED <<stderr, exit_status>>
          ELSE /\ uncaught(<<"DatabaseError", "execute">>)
               /\ UNCHANGED db_columns
    /\ UNCHANGED <<args, cfg, fmt_exists, connected, char_columns, file, pos,
                   all_columns, offset, with_lengths, with_offsets, ddl,
                   stdout, callproc>>

(***************************************************************************)
(* gen_ddl.collect_columns.                                                *)
(***************************************************************************)
\* f'{name} VARCHAR2({length} {char_used})'
LengthEntry(name, length, chars) ==
    [name |-> name, length |-> length,
     char_used |-> IF name \in chars THEN "CHAR" ELSE "BYTE"]

\* PositionEntry with the last position taken one short
PositionEntry_short(name, off, length) ==
    [name |-> name, first |-> off + 1, last |-> off + length - 1]

\* f'"{name}"\tPOSITION({first}:{last})'
PositionEntry(name, off, length) ==
    [name |-> name, first |-> off + 1, last |-> off + length]

\* NextOffset leaving one position between two columns
NextOffset_gap(off, length) == off + length + 1

\* offset += length
NextOffset(off, length) == off + length

\* Discrepancies as the one-sided difference db_columns - all_columns
Discrepancies_one_sided(db, seen) == db \ seen

\* db_columns ^ all_columns
Discrepancies(db, seen) == (db \ seen) \cup (seen \ db)

\* the locals are set and the file is opened
collect_columns ==
    /\ pc = "collect_columns"
    /\ all_columns' = {}
    /\ offset' = 0
    /\ with_lengths' = <<>>
    /\ with_offsets' = <<>>
    /\ pos' = 1
    /\ IF ~fmt_exists
       THEN /\ log_and_quit(<<"FileNotFoundError", "fmt_path">>)
            /\ UNCHANGED file
       ELSE /\ \E f \in FormatFiles : file' = f
            /\ pc' = IF file' = <<>> THEN "discrepancies" ELSE "for_line"
            /\ UNCHANGED <<stderr, exit_status>>
    /\ UNCHANGED <<args, cfg, fmt_exists, connected, queries, char_columns,
                   db_columns, ddl, stdout, callproc>>

\* one iteration of the for loop over the file's lines
for_line ==
    /\ pc = "for_line"
    /\ pos <= Len(file)
    /\ \E parts \in {split(file[pos], ",")} :
           IF Len(parts) < 2
           THEN /\ log_and_quit(<<"IndexError", "list index out of range">>)
                /\ UNCHANGED <<pos, all_columns, offset, with_lengths,
                               with_offsets>>
           ELSE IF ~int_ok(parts[2])
           THEN /\ log_and_quit(<<"ValueError", "invalid literal for int()">>)
                /\ UNCHANGED <<pos, all_columns, offset, with_lengths,
                               with_offsets>>
           ELSE LET name == upper(parts[1])
                    length == int(parts[2])
                IN  IF name = EOR
                    THEN /\ pc' = "discrepancies"
                         /\ UNCHANGED <<pos, all_columns, offset,
                                        with_lengths, with_offsets, stderr,
                                        exit_status>>
                    ELSE /\ all_columns' = all_columns \cup {upper(name)}
                         /\ with_lengths' =
                               Append(with_lengths,
                                      LengthEntry(name, length, char_columns))
                         /\ with_offsets' =
                               Append(with_offsets,
                                      PositionEntry(name, offset, length))
                         /\ offset' = NextOffset(offset, length)
                         /\ pos' = pos + 1
                         /\ pc' = IF pos + 1 > Len(file) THEN "discrepancies"
                                  ELSE "for_line"
                         /\ UNCHANGED <<stderr, exit_status>>
    /\ UNCHANGED <<args, cfg, fmt_exists, connected, queries, char_columns,
                   db_columns, file, ddl, stdout, callproc>>

\* discrepancies with the exit() after the print left out
discrepancies_no_exit ==
    /\ pc = "discrepancies"
    /\ LET found == Discrepancies(db_columns, all_columns)
       IN  stdout' = IF found # {}
                     THEN Append(stdout, [kind |-> "discrepancies",
                                          names |-> found])
                     ELSE stdout
    /\ pc' = "render"
    /\ UNCHANGED <<args, cfg, fmt_exists, connected, queries, char_columns,
                   db_columns, file, pos, all_columns, offset, with_lengths,
                   with_offsets, ddl, stderr, callproc, exit_status>>

\* the check after the loop
discrepancies ==
    /\ pc = "discrepancies"
    /\ LET found == Discrepancies(db_columns, all_columns)
       IN  IF found # {}
           THEN /\ stdout' = Append(stdout, [kind |-> "discrepancies",
                                             names |-> found])
                /\ exit_none
           ELSE /\ pc' = "render"
                /\ UNCHANGED <<stdout, exit_status>>
    /\ UNCHANGED <<args, cfg, fmt_exists, connected, queries, char_columns,
                   db_columns, file, pos, all_columns, offset, with_lengths,
                   with_offsets, ddl, stderr, callproc>>

(***************************************************************************)
(* gen_ddl: the values and the template.                                   *)
(***************************************************************************)
\* _TEMPLATE % values
Template(values) ==
    [table_name |-> values.table_name,
     columns_with_lengths |-> values.columns_with_lengths,
     directory_name |-> values.directory_name,
     badfile |-> values.lc_table_name \o BadSuffix,
     logfile |-> values.lc_table_name \o LogSuffix,
     columns_with_offsets |-> values.columns_with_offsets,
     file_name |-> values.file_name]

render ==
    /\ pc = "render"
    /\ LET acronym_lower == lower(args.affiliate_acronym)
           values == [columns_with_lengths |-> with_lengths,
                      columns_with_offsets |-> with_offsets,
                      table_name |-> args.table_name,
                      lc_table_name |-> lower(args.table_name),
                      directory_name |-> args.directory_name,
                      file_name |-> acronym_lower \o FileNameSuffix]
       IN  ddl' = <<Template(values)>>
    /\ pc' = "main"
    /\ UNCHANGED <<args, cfg, fmt_exists, connected, queries, char_columns,
                   db_columns, file, pos, all_columns, offset, with_lengths,
                   with_offsets, stdout, stderr, callproc, exit_status>>

(***************************************************************************)
(* The module's last statement: print the DDL or create the table.         *)
(***************************************************************************)
\* create_table passing the lower-cased table name
create_table_lc(table_name, text) ==
    /\ callproc' = Append(callproc, [table_name |-> lower(table_name),
                                     ddl |-> text])
    /\ \E ok \in BOOLEAN :
          IF ok
          THEN /\ pc' = "exited"
               /\ exit_status' = <<0>>
               /\ UNCHANGED stderr
          ELSE uncaught(<<"DatabaseError", "callproc">>)

\* cur.callproc('code.ddl_utilities.create_or_replace_external_table', ...)
create_table(table_name, text) ==
    /\ callproc' = Append(callproc, [table_name |-> table_name, ddl |-> text])
    /\ \E ok \in BOOLEAN :
          IF ok
          THEN /\ pc' = "exited"
               /\ exit_status' = <<0>>
               /\ UNCHANGED stderr
          ELSE uncaught(<<"DatabaseError", "callproc">>)

show_or_create ==
    /\ pc = "main"
    /\ IF args.show_only
       THEN /\ stdout' = Append(stdout, [kind |-> "ddl", text |-> ddl[1]])
            /\ pc' = "exited"
            /\ exit_status' = <<0>>
            /\ UNCHANGED <<callproc, stderr>>
       ELSE /\ create_table(args.table_name, ddl[1])
            /\ UNCHANGED stdout
    /\ UNCHANGED <<args, cfg, fmt_exists, connected, queries, char_columns,
                   db_columns, file, pos, all_columns, offset, with_lengths,
                   with_offsets, ddl>>

Next ==
    \/ expand_args
    \/ get_cursor
    \/ get_char_semantics_columns
    \/ get_all_columns
    \/ collect_columns
    \/ for_line
    \/ discrepancies
    \/ render
    \/ show_or_create

Spec == Init /\ [][Next]_vars

\* the interpreter runs the next statement as long as there is one
FairSpec == Spec /\ WF_vars(Next)

(***************************************************************************)
(* What the properties speak of.                                           *)
(***************************************************************************)
\* the first comma-separated field of line i, and the length it declares
FirstField(i) == split(file[i], ",")[1]
DeclaredLength(i) == int(split(file[i], ",")[2])

\* the lines before the first line whose uppercased name is EOR
LinesBeforeSentinel ==
    {i \in 1..Len(file) : \A j \in 1..i : upper(FirstField(j)) # EOR}

\* the uppercased column names of the lines before the sentinel
DescriptorNames == {upper(FirstField(i)) : i \in LinesBeforeSentinel}

\* the for loop ended without an exception
ParsedWithoutError == pc \in {"discrepancies", "render", "main"} \/ ddl # <<>>

\* the DDL was printed
DdlPrinted == \E i \in 1..Len(stdout) : stdout[i].kind = "ddl"

\* the run reported a column discrepancy
DiscrepancyReported == \E i \in 1..Len(stdout) : stdout[i].kind = "discrepancies"

\* the run logged an error and quit
ErrorLogged == \E i \in 1..Len(stderr) : stderr[i].kind = "error"

\* an exception ended the run before gen_ddl returned
CompileTraceback ==
    \E i \in 1..Len(stderr) :
        stderr[i].kind = "traceback" /\ stderr[i].text[2] # "callproc"

Success == ddl # <<>>
Aborted == ErrorLogged \/ DiscrepancyReported \/ CompileTraceback

(***************************************************************************)
(* C1.  For every descriptor collect_columns parses without error, the     *)
(* offset ranges, in descriptor order over the lines before the sentinel,  *)
(* are contiguous: the first column starts at position 1, every later      *)
(* column starts at the previous column's last position plus 1, and each   *)
(* column's last position is its first plus its length minus 1.            *)
(***************************************************************************)
C1_OffsetsContiguous ==
    /\ \A i \in 1..Len(with_offsets) :
          /\ with_offsets[i].name = upper(FirstField(i))
          /\ with_offsets[i].first =
                (IF i = 1 THEN 1 ELSE with_offsets[i - 1].last + 1)
          /\ with_offsets[i].last =
                with_offsets[i].first + DeclaredLength(i) - 1
    /\ ParsedWithoutError =>
          Len(with_offsets) = Cardinality(LinesBeforeSentinel)
    \* with positive lengths no position is in two ranges
    /\ (\A i \in 1..Len(with_offsets) : DeclaredLength(i) > 0) =>
          \A i, j \in 1..Len(with_offsets) :
              i < j => /\ with_offsets[i].first <= with_offsets[i].last
                       /\ with_offsets[i].last < with_offsets[j].first

\* three columns of lengths 2, 3 and 2 were read, in some order
C1_Witness ==
    /\ pc = "discrepancies"
    /\ Len(with_offsets) = 3
    /\ \A i \in 1..3 : DeclaredLength(i) > 0
    /\ with_offsets[3].last = 7

(***************************************************************************)
(* C2.  Reconciliation is a hard gate: DDL is rendered, returned, printed  *)
(* or applied only when the uppercased column names of the descriptor's    *)
(* lines before the sentinel equal the set get_all_columns returned; with  *)
(* a non-empty symmetric difference the run ends with no DDL and no call   *)
(* of the remote procedure.                                                *)
(***************************************************************************)
C2_ReconciliationGate ==
    /\ (pc \in {"render", "main"} \/ ddl # <<>> \/ callproc # <<>>
            \/ DdlPrinted)
          => DescriptorNames = db_columns
    /\ DiscrepancyReported =>
          /\ pc = "exited"
          /\ ddl = <<>>
          /\ callproc = <<>>
          /\ ~DdlPrinted

\* a descriptor naming a column the table lacks was read to its end and
\* the run stopped at the check
C2_Witness ==
    /\ pc = "exited"
    /\ DiscrepancyReported
    /\ DescriptorNames \ db_columns # {}
    /\ ddl = <<>>

(***************************************************************************)
(* C3.  Every error of a run is terminal and ends the process with a       *)
(* descriptive message and a non-zero status.                              *)
(***************************************************************************)
C3_ErrorsExitNonZero ==
    (ErrorLogged \/ DiscrepancyReported) =>
        /\ pc = "exited"
        /\ exit_status # <<0>>
        /\ ddl = <<>>

(***************************************************************************)
(* C4.  A configuration error (a missing connection or storage parameter,  *)
(* or a descriptor file that does not exist) ends the run before a         *)
(* database connection is opened or a schema query is executed.            *)
(***************************************************************************)
ConfigurationComplete ==
    /\ cfg.isfile
    /\ cfg.has_section
    /\ \A i \in 1..Len(ConfigItems) : ConfigItems[i] \in cfg.options

C4_ConfigErrorBeforeSchema ==
    (~ConfigurationComplete \/ ~fmt_exists) =>
        /\ ~connected
        /\ queries = {}

(***************************************************************************)
(* C5.  For an acronym in any letter case the table name in the DDL and    *)
(* in the call of create_table is NEW_MEMBER_<acronym uppercased>_EXT, the *)
(* data file is <acronym lowercased>_good.txt, and the bad and log files   *)
(* are the lower-cased table name followed by .bad and .log.               *)
(***************************************************************************)
C5_Names ==
    LET expected == TableNamePrefix \o upper(args.affiliate_acronym)
                        \o TableNameSuffix
    IN  /\ ddl # <<>> =>
              /\ ddl[1].table_name = expected
              /\ ddl[1].file_name =
                    lower(args.affiliate_acronym) \o FileNameSuffix
              /\ ddl[1].badfile = lower(expected) \o BadSuffix
              /\ ddl[1].logfile = lower(expected) \o LogSuffix
        /\ \A i \in 1..Len(callproc) : callproc[i].table_name = expected

(***************************************************************************)
(* C6.  Parsing stops at the first line whose first field is exactly EOR:  *)
(* that line and the lines after it contribute no column, no offset and    *)
(* no error, whatever else they hold, and the columns emitted are exactly  *)
(* the lines before it.                                                    *)
(***************************************************************************)
C6_StopsAtSentinel ==
    \A k \in 1..Len(file) :
        (FirstField(k) = EOR /\ \A j \in 1..(k - 1) : FirstField(j) # EOR) =>
            /\ Len(with_lengths) <= k - 1
            /\ Len(with_offsets) <= k - 1
            /\ ~(ErrorLogged /\ pos >= k)
            /\ ddl # <<>> =>
                  Len(ddl[1].columns_with_lengths) = k - 1

(***************************************************************************)
(* C7.  In a run that produces DDL the column-definition fragment and the  *)
(* field-position fragment have as many entries, in descriptor order, and  *)
(* the i-th entries name the same column, the position entry's width       *)
(* (last - first + 1) being the length the i-th definition declares.       *)
(***************************************************************************)
C7_FragmentsAgree ==
    ddl # <<>> =>
        LET defs == ddl[1].columns_with_lengths
            flds == ddl[1].columns_with_offsets
        IN  /\ Len(defs) = Len(flds)
            /\ Len(defs) = Cardinality(LinesBeforeSentinel)
            /\ \A i \in 1..Len(defs) :
                  /\ defs[i].name = upper(FirstField(i))
                  /\ flds[i].name = defs[i].name
                  /\ defs[i].length = DeclaredLength(i)
                  /\ flds[i].last - flds[i].first + 1 = defs[i].length

\* DDL of two columns of different lengths
C7_Witness ==
    /\ ddl # <<>>
    /\ Len(ddl[1].columns_with_lengths) = 2
    /\ ddl[1].columns_with_lengths[1].length
          # ddl[1].columns_with_lengths[2].length

(***************************************************************************)
(* C8.  In a run that produces DDL no uppercased column name is in more    *)
(* than one entry of the column-definition fragment or of the              *)
(* field-position fragment; a descriptor that lists a name twice before    *)
(* the sentinel, in any letter case, yields no DDL.                        *)
(***************************************************************************)
C8_UniqueNames ==
    ddl # <<>> =>
        /\ \A i, j \in 1..Len(ddl[1].columns_with_lengths) :
              ddl[1].columns_with_lengths[i].name
                  = ddl[1].columns_with_lengths[j].name => i = j
        /\ \A i, j \in 1..Len(ddl[1].columns_with_offsets) :
              ddl[1].columns_with_offsets[i].name
                  = ddl[1].columns_with_offsets[j].name => i = j
        /\ \A i, j \in LinesBeforeSentinel :
              upper(FirstField(i)) = upper(FirstField(j)) => i = j

(***************************************************************************)
(* C9.  A run goes through FetchSchema, Parse, Reconcile and Render in     *)
(* that order, never back and never past one, and ends in exactly one of   *)
(* Success (a DDL text) and Aborted; both queries are done before the      *)
(* first descriptor line is read, and the template is substituted only     *)
(* after the reconciliation passed.                                        *)
(***************************************************************************)
StageRank(p) ==
    CASE p \in {"expand_args", "get_cursor"} -> 0
      [] p \in {"get_char_semantics_columns", "get_all_columns"} -> 1
      [] p \in {"collect_columns", "for_line"} -> 2
      [] p = "discrepancies" -> 3
      [] p = "render" -> 4
      [] p = "main" -> 5
      [] p = "exited" -> 6

C9_StagesInOrder ==
    /\ [][\/ pc' = "exited"
          \/ StageRank(pc') = StageRank(pc)
          \/ StageRank(pc') = StageRank(pc) + 1]_vars
    /\ [][pc = "exited" => pc' = "exited"]_vars
    /\ [](pc = "for_line" =>
             queries = {"char_semantics_columns", "all_columns"})
    /\ [](ddl # <<>> => Discrepancies(db_columns, all_columns) = {})
    /\ [](pc = "exited" => (Success /\ ~Aborted) \/ (Aborted /\ ~Success))
    /\ <>(pc = "exited")

\* a run that went through the four stages and ended with its DDL
C9_Witness ==
    /\ pc = "exited"
    /\ Success
    /\ ~Aborted
    /\ Len(with_offsets) > 0

(***************************************************************************)
(* C10.  create_or_replace_external_table is called at most once, only     *)
(* after gen_ddl returned, with the generated table name and the DDL       *)
(* text; with --show-only it is never called and the DDL is printed;       *)
(* without it a successful compilation always calls it and prints no DDL.  *)
(***************************************************************************)
C10_ApplyOnce ==
    /\ Len(callproc) <= 1
    /\ callproc # <<>> =>
          /\ ddl # <<>>
          /\ callproc[1].ddl = ddl[1]
          /\ callproc[1].table_name = ddl[1].table_name
          /\ callproc[1].table_name = args.table_name
    /\ args.show_only => callproc = <<>>
    /\ ~args.show_only => ~DdlPrinted
    /\ (pc = "exited" /\ ddl # <<>>) =>
          IF args.show_only
          THEN stdout = <<[kind |-> "ddl", text |-> ddl[1]]>>
          ELSE Len(callproc) = 1

\* the procedure was called and the run ended
C10_Witness ==
    /\ pc = "exited"
    /\ Len(callproc) = 1
    /\ ~args.show_only
    /\ stdout = <<>>

=============================================================================
